---- MODULE Spec2Model ----
(***************************************************************************)
(* Model of scrape.js: the price extraction pipeline (numeric normalizer,  *)
(* four extraction strategies, the strategy chain of the main loop) and    *)
(* the batch run that assembles and writes the report.                     *)
(*                                                                         *)
(* Text is a sequence of one-character strings.  A JavaScript number is a  *)
(* record [k, m, e]: k = "num" is the finite decimal m / 10^e (kept with   *)
(* no trailing zero in its fraction), k = "nan" and k = "inf" are NaN and  *)
(* Infinity, k = "null" is JavaScript null.                                *)
(***************************************************************************)
EXTENDS Integers, Sequences, FiniteSets, TLC

\* ------------------------------------------------------------------------
\* Characters and text
\* ------------------------------------------------------------------------

Digits == {"0", "1", "2", "3", "4", "5", "6", "7", "8", "9"}

\* U+202F NARROW NO-BREAK SPACE, one character
NNBSP == "NNBSP"

\* what the regular expression class \s matches
WhiteSpace == {" ", "\n", "\t", NNBSP}

DigitVal(c) ==
    CASE c = "0" -> 0 [] c = "1" -> 1 [] c = "2" -> 2 [] c = "3" -> 3
      [] c = "4" -> 4 [] c = "5" -> 5 [] c = "6" -> 6 [] c = "7" -> 7
      [] c = "8" -> 8 [] c = "9" -> 9

IsDigitAt(s, i) == i >= 1 /\ i <= Len(s) /\ s[i] \in Digits

\* s.slice(i - 1, j - 1): the characters at positions i .. j-1
Slice(s, i, j) == IF j <= i THEN << >> ELSE SubSeq(s, i, j - 1)

\* s.replace(/c/g, '') for every c of the class cs
RemoveChars(s, cs) == SelectSeq(s, LAMBDA c : c \notin cs)

RECURSIVE CollapseWS(_)
\* s.replace(/\s+/g, ' ')
CollapseWS(s) ==
    IF s = << >> THEN << >>
    ELSE IF s[1] \in WhiteSpace
         THEN IF Len(s) >= 2 /\ s[2] \in WhiteSpace
              THEN CollapseWS(Tail(s))
              ELSE <<" ">> \o CollapseWS(Tail(s))
         ELSE <<s[1]>> \o CollapseWS(Tail(s))

RECURSIVE TrimLeft(_)
TrimLeft(s) ==
    IF s # << >> /\ s[1] \in WhiteSpace THEN TrimLeft(Tail(s)) ELSE s

RECURSIVE TrimRight(_)
TrimRight(s) ==
    IF s # << >> /\ s[Len(s)] \in WhiteSpace
    THEN TrimRight(SubSeq(s, 1, Len(s) - 1))
    ELSE s

\* String.prototype.trim
Trim(s) == TrimRight(TrimLeft(s))

\* s.replace(',', '.'): the first comma only
ReplaceFirstComma(s) ==
    IF \E i \in 1..Len(s) : s[i] = ","
    THEN LET i == CHOOSE k \in 1..Len(s) :
                      s[k] = "," /\ \A j \in 1..(k - 1) : s[j] # ","
         IN [s EXCEPT ![i] = "."]
    ELSE s

\* the currency sign U+20AC, one character
Euro == "EUR"

UpperLetters == <<"A", "B", "C", "D", "E", "F", "G", "H", "I", "J", "K",
                  "L", "M", "N", "O", "P", "Q", "R", "S",
                  "T", "U", "V", "W", "X", "Y", "Z">>

LowerLetters == <<"a", "b", "c", "d", "e", "f", "g", "h", "i", "j", "k",
                  "l", "m", "n", "o", "p", "q", "r", "s",
                  "t", "u", "v", "w", "x", "y", "z">>

\* String.prototype.toLowerCase on one character
LowerChar(c) ==
    IF \E i \in 1..Len(UpperLetters) : UpperLetters[i] = c
    THEN LowerLetters[CHOOSE i \in 1..Len(UpperLetters) : UpperLetters[i] = c]
    ELSE c

ToLowerCase(s) == [i \in 1..Len(s) |-> LowerChar(s[i])]

\* s.includes(w)
Includes(s, w) ==
    \E i \in 1..(Len(s) - Len(w) + 1) : SubSeq(s, i, i + Len(w) - 1) = w

\* ------------------------------------------------------------------------
\* JavaScript numbers
\* ------------------------------------------------------------------------

Null == [k |-> "null", m |-> 0, e |-> 0]
NaN == [k |-> "nan", m |-> 0, e |-> 0]
Infinity == [k |-> "inf", m |-> 0, e |-> 0]

RECURSIVE Reduce(_, _)
\* the decimal m / 10^e with the trailing zeros of its fraction dropped
Reduce(m, e) ==
    IF e > 0 /\ m % 10 = 0 THEN Reduce(m \div 10, e - 1)
    ELSE [k |-> "num", m |-> m, e |-> e]

Num(m, e) == Reduce(m, e)

\* Number.isFinite(v)
IsFinite(v) == v.k = "num"

RECURSIVE DigitsValue(_)
\* the value of a run of decimal digits
DigitsValue(ds) ==
    IF ds = << >> THEN 0
    ELSE 10 * DigitsValue(SubSeq(ds, 1, Len(ds) - 1)) + DigitVal(ds[Len(ds)])

RECURSIVE DigitsEnd(_, _)
\* the position after the run of digits that starts at position i
DigitsEnd(s, i) == IF IsDigitAt(s, i) THEN DigitsEnd(s, i + 1) ELSE i

\* parseFloat(s): the longest prefix of s that is a decimal literal (digits,
\* then optionally a point and digits), NaN when s starts with no such literal
ParseFloat(s) ==
    LET i == DigitsEnd(s, 1)
        hasFrac == i <= Len(s) /\ s[i] = "." /\ IsDigitAt(s, i + 1)
        j == IF hasFrac THEN DigitsEnd(s, i + 1) ELSE i
    IN IF i = 1 /\ ~hasFrac THEN NaN
       ELSE IF hasFrac
            THEN Num(DigitsValue(Slice(s, 1, i) \o Slice(s, i + 1, j)), j - i - 1)
            ELSE Num(DigitsValue(Slice(s, 1, i)), 0)

\* ------------------------------------------------------------------------
\* JavaScript values (page texts, attribute values, parsed JSON)
\* ------------------------------------------------------------------------

JStr(s) == [t |-> "string", s |-> s, n |-> Null, b |-> FALSE]
JNum(n) == [t |-> "number", s |-> << >>, n |-> n, b |-> FALSE]
JBool(b) == [t |-> "boolean", s |-> << >>, n |-> Null, b |-> b]
JNull == [t |-> "null", s |-> << >>, n |-> Null, b |-> FALSE]
JUndefined == [t |-> "undefined", s |-> << >>, n |-> Null, b |-> FALSE]
\* a plain object with none of the properties the code reads
JObject == [t |-> "object", s |-> << >>, n |-> Null, b |-> FALSE]

\* ToBoolean(v): how `!v`, `v && ..`, `v || ..` and `if (v)` read v
Truthy(v) ==
    CASE v.t = "string" -> v.s # << >>
      [] v.t = "number" -> ~(v.n.k = "nan" \/ (v.n.k = "num" /\ v.n.m = 0))
      [] v.t = "boolean" -> v.b
      [] v.t = "object" -> TRUE
      [] OTHER -> FALSE

InfinityText == <<"I", "n", "f", "i", "n", "i", "t", "y">>

\* Number(s) of a string: white space trimmed, "" is 0, a decimal literal
\* (digits with an optional fraction) or "Infinity" is its value, any other
\* text is NaN.  Signs, exponents and hex literals do not occur in the
\* texts of the model.
StringToNumber(s) ==
    LET t == Trim(s)
        i == DigitsEnd(t, 1)
        j == IF i <= Len(t) /\ t[i] = "." THEN DigitsEnd(t, i + 1) ELSE i
    IN IF t = << >> THEN Num(0, 0)
       ELSE IF t = InfinityText THEN Infinity
       ELSE IF j = Len(t) + 1 /\ (i > 1 \/ j > i + 1)
            THEN IF j > i
                 THEN Num(DigitsValue(Slice(t, 1, i) \o Slice(t, i + 1, j)), j - i - 1)
                 ELSE Num(DigitsValue(Slice(t, 1, i)), 0)
            ELSE NaN

\* Number(v)
ToNumber(v) ==
    CASE v.t = "string" -> StringToNumber(v.s)
      [] v.t = "number" -> v.n
      [] v.t = "boolean" -> IF v.b THEN Num(1, 0) ELSE Num(0, 0)
      [] v.t = "null" -> Num(0, 0)
      [] OTHER -> NaN

\* ------------------------------------------------------------------------
\* The numeric pattern and the normalizer
\* ------------------------------------------------------------------------

\* \d{1,3} at position i (a digit): the position after at most three digits
HeadEnd(s, i) ==
    IF IsDigitAt(s, i + 1)
    THEN IF IsDigitAt(s, i + 2) THEN i + 3 ELSE i + 2
    ELSE i + 1

RECURSIVE GroupsEnd(_, _)
\* (?:[.\s]\d{3})* at position j, greedy
GroupsEnd(s, j) ==
    IF j <= Len(s) /\ (s[j] = "." \/ s[j] \in WhiteSpace)
       /\ IsDigitAt(s, j + 1) /\ IsDigitAt(s, j + 2) /\ IsDigitAt(s, j + 3)
    THEN GroupsEnd(s, j + 4)
    ELSE j

\* (?:[,.]\d+)? at position j, greedy
DecimalEnd(s, j) ==
    IF j <= Len(s) /\ s[j] \in {",", "."} /\ IsDigitAt(s, j + 1)
    THEN DigitsEnd(s, j + 1)
    ELSE j

HasNumber(s) == \E i \in 1..Len(s) : s[i] \in Digits

\* s.match(/(\d{1,3}(?:[.\s]\d{3})*(?:[,.]\d+)?)/)[1]: the first match, which
\* starts at the first digit of s; every later part of the pattern is
\* optional and greedy, so the first alternative tried at each part stands
NumberMatch(s) ==
    LET i == CHOOSE k \in 1..Len(s) :
                  s[k] \in Digits /\ \A j \in 1..(k - 1) : s[j] \notin Digits
    IN Slice(s, i, DecimalEnd(s, GroupsEnd(s, HeadEnd(s, i))))

\* mutant: the thousands separators stay in the match
normalizeNumberString_KeepsDots(v) ==
    IF ~Truthy(v) \/ v.t # "string" THEN Null
    ELSE LET s == Trim(CollapseWS(RemoveChars(v.s, {NNBSP})))
         IN IF ~HasNumber(s) THEN Null
            ELSE LET f == ParseFloat(ReplaceFirstComma(NumberMatch(s)))
                 IN IF IsFinite(f) THEN f ELSE Null

normalizeNumberString(v) ==
    IF ~Truthy(v) \/ v.t # "string" THEN Null
    ELSE LET s == Trim(CollapseWS(RemoveChars(v.s, {NNBSP})))
         IN IF ~HasNumber(s) THEN Null
            ELSE LET num == ReplaceFirstComma(
                                RemoveChars(RemoveChars(NumberMatch(s), WhiteSpace),
                                            {"."}))
                     f == ParseFloat(num)
                 IN IF IsFinite(f) THEN f ELSE Null

\* ------------------------------------------------------------------------
\* The rendered page, as far as the strategies query it
\* ------------------------------------------------------------------------
\* A page is a record:
\*   selFor    the selector text an element of the document matches
\*   hasEl     whether such an element exists
\*   innerText, textContent   that element's text properties
\*   scripts   the script[type="application/ld+json"] elements in document
\*             order, each by what JSON.parse makes of its text
\*   metas     the meta elements in document order, each by its attributes
\*   els       the innerText of the elements under body, in document order

\* what JSON.parse returns for a script: valid = FALSE when it throws
Parsed(isArray, elems) == [valid |-> TRUE, isArray |-> isArray, elems |-> elems]
Unparsable == [valid |-> FALSE, isArray |-> FALSE, elems |-> << >>]

\* an offer object: its price, whether it has a priceSpecification object,
\* and that object's price
Offer(price, hasSpec, specPrice) ==
    [isObj |-> TRUE, price |-> price, hasSpec |-> hasSpec, specPrice |-> specPrice]

\* an item of structured data: offers is "absent", one "object" or an "array"
Item(offers, list) == [offers |-> offers, list |-> list]

Meta(name, property, content) ==
    [name |-> name, property |-> property, content |-> content]

\* the least index at which the sequence of flags holds TRUE, 0 when there is
\* none: with hits[i] = "the loop body returns at the i-th element", the
\* element at which a `for (const x of xs)` loop returns
FirstIndex(hits) ==
    IF \E i \in 1..Len(hits) : hits[i]
    THEN CHOOSE i \in 1..Len(hits) : hits[i] /\ \A j \in 1..(i - 1) : ~hits[j]
    ELSE 0

\* a || b
Or(a, b) == IF Truthy(a) THEN a ELSE b

\* ------------------------------------------------------------------------
\* trySelector
\* ------------------------------------------------------------------------

\* whether an element of the page matches the selector, so that
\* page.waitForSelector resolves instead of timing out
SelectorMatches(page, selector) == page.hasEl /\ Trim(selector) = page.selFor

\* el => (el.innerText || el.textContent || '').trim()
ElementText(page) ==
    JStr(Trim(Or(Or(JStr(page.innerText), JStr(page.textContent)), JStr(<< >>)).s))

\* throws = a page query rejects for a reason of the renderer's own
trySelector(page, selector, throws) ==
    IF throws \/ ~SelectorMatches(page, selector) THEN Null
    ELSE normalizeNumberString(ElementText(page))

\* ------------------------------------------------------------------------
\* tryJSONLD
\* ------------------------------------------------------------------------

\* Array.isArray(parsed) ? parsed : [parsed]
ItemsOf(parsed) == IF parsed.isArray THEN parsed.elems ELSE <<parsed.elems[1]>>

\* Array.isArray(item.offers) ? item.offers[0] : item.offers
FirstOffer(item) ==
    IF item.list = << >>
    THEN [isObj |-> FALSE, price |-> JUndefined, hasSpec |-> FALSE,
          specPrice |-> JUndefined]
    ELSE item.list[1]

\* offer.price || (offer.priceSpecification && offer.priceSpecification.price)
OfferPrice(offer) ==
    Or(offer.price, IF offer.hasSpec THEN offer.specPrice ELSE JUndefined)

\* whether the loop body returns at this item
ItemHasPrice(item) ==
    /\ item.offers # "absent"
    /\ FirstOffer(item).isObj
    /\ Truthy(FirstOffer(item).price) \/ FirstOffer(item).hasSpec
    /\ Truthy(OfferPrice(FirstOffer(item)))

ItemHits(arr) == [i \in 1..Len(arr) |-> ItemHasPrice(arr[i])]

\* whether the scan returns inside this script; a script whose text does not
\* parse is left by the inner catch
ScriptHasPrice(parsed) ==
    parsed.valid /\ FirstIndex(ItemHits(ItemsOf(parsed))) # 0

ScriptHits(data) == [i \in 1..Len(data) |-> ScriptHasPrice(data[i])]

\* mutant: the scan returns Number(price) of the last offer it looked at
\* when no item has a price, Number(undefined)
tryJSONLD_Unguarded(page, throws) ==
    IF throws THEN Null
    ELSE LET si == FirstIndex(ScriptHits(page.scripts))
         IN IF si = 0 THEN ToNumber(JUndefined)
            ELSE LET arr == ItemsOf(page.scripts[si])
                     item == arr[FirstIndex(ItemHits(arr))]
                 IN ToNumber(OfferPrice(FirstOffer(item)))

\* mutant: one try around the whole scan, so that a script that does not
\* parse ends it
tryJSONLD_StopsAtParseError(page, throws) ==
    LET si == FirstIndex(ScriptHits(page.scripts))
        bad == FirstIndex([i \in 1..Len(page.scripts) |-> ~page.scripts[i].valid])
    IN IF throws \/ si = 0 \/ (bad # 0 /\ bad < si) THEN Null
       ELSE LET arr == ItemsOf(page.scripts[si])
                item == arr[FirstIndex(ItemHits(arr))]
            IN ToNumber(OfferPrice(FirstOffer(item)))

tryJSONLD(page, throws) ==
    IF throws THEN Null
    ELSE LET si == FirstIndex(ScriptHits(page.scripts))
         IN IF si = 0 THEN Null
            ELSE LET arr == ItemsOf(page.scripts[si])
                     item == arr[FirstIndex(ItemHits(arr))]
                 IN ToNumber(OfferPrice(FirstOffer(item)))

\* ------------------------------------------------------------------------
\* tryMeta
\* ------------------------------------------------------------------------

PriceWord == <<"p", "r", "i", "c", "e">>
OgPriceWord == <<"o", "g", ":", "p", "r", "i", "c", "e">>
ProductPriceAmountWord == <<"p", "r", "o", "d", "u", "c", "t", ":", "p", "r",
                            "i", "c", "e", ":", "a",
                            "m", "o", "u", "n",
                            "t">>

\* m.getAttribute('name') || m.getAttribute('property')
MetaName(m) == Or(m.name, m.property)

\* whether the loop returns at this meta element
MetaHasPrice(m) ==
    /\ Truthy(MetaName(m))
    /\ Truthy(m.content)
    /\ LET low == ToLowerCase(Or(MetaName(m), JStr(<< >>)).s)
       IN \/ Includes(low, PriceWord)
          \/ Includes(low, OgPriceWord)
          \/ Includes(low, ProductPriceAmountWord)
    /\ normalizeNumberString(m.content) # Null

MetaHits(metas) == [i \in 1..Len(metas) |-> MetaHasPrice(metas[i])]

\* mutant: the first element whose name holds "price" decides, `return v`
\* without the test `v !== null`
tryMeta_FirstMatchDecides(page, throws) ==
    LET named == [i \in 1..Len(page.metas) |->
                     /\ Truthy(MetaName(page.metas[i]))
                     /\ Truthy(page.metas[i].content)
                     /\ Includes(ToLowerCase(MetaName(page.metas[i]).s), PriceWord)]
        i == FirstIndex(named)
    IN IF throws \/ i = 0 THEN Null
       ELSE normalizeNumberString(page.metas[i].content)

tryMeta(page, throws) ==
    IF throws THEN Null
    ELSE LET i == FirstIndex(MetaHits(page.metas))
         IN IF i = 0 THEN Null ELSE normalizeNumberString(page.metas[i].content)

\* ------------------------------------------------------------------------
\* tryHeuristic
\* ------------------------------------------------------------------------

keywords ==
    << <<"a", "n", "k", "a", "u", "f">>,
       <<"a", "n", "k", "a", "u", "f", "s", "p", "r", "e", "i", "s">>,
       <<"a", "n", "k", "a", "u", "f", "s">>,
       <<"k", "a", "u", "f", "p", "r", "e", "i", "s">>,
       <<"a", "n", "k", "a", "u", "f", "s", "w", "e", "r", "t">> >>

\* findNumberInText(text): m[0] of the first match, null (here << >>) if none
findNumberInText(text) == IF HasNumber(text) THEN NumberMatch(text) ELSE << >>

\* (el.innerText || '').trim()
TextOf(el) == Trim(el)

\* first loop: the element's text holds a keyword and a number
KeywordHit(el) ==
    LET t == TextOf(el)
    IN /\ t # << >>
       /\ \E k \in 1..Len(keywords) : Includes(ToLowerCase(t), keywords[k])
       /\ findNumberInText(t) # << >>

\* second loop: the element's text holds the currency sign and a number
CurrencyHit(el) ==
    LET t == TextOf(el)
    IN /\ t # << >>
       /\ Includes(t, <<Euro>>)
       /\ findNumberInText(t) # << >>

KeywordHits(els) == [i \in 1..Len(els) |-> KeywordHit(els[i])]

CurrencyHits(els) == [i \in 1..Len(els) |-> CurrencyHit(els[i])]

\* mutant: one loop that tests each element for a keyword or the currency
\* sign
HeuristicFound_OnePass(page) ==
    LET i == FirstIndex([j \in 1..Len(page.els) |->
                            KeywordHit(page.els[j]) \/ CurrencyHit(page.els[j])])
    IN IF i # 0 THEN findNumberInText(TextOf(page.els[i])) ELSE << >>

\* the function evaluated in the page: the raw match, << >> for null
HeuristicFound(page) ==
    LET k == FirstIndex(KeywordHits(page.els))
        c == FirstIndex(CurrencyHits(page.els))
    IN IF k # 0 THEN findNumberInText(TextOf(page.els[k]))
       ELSE IF c # 0 THEN findNumberInText(TextOf(page.els[c]))
       ELSE << >>

\* mutant: the catch returns undefined, which is not null
tryHeuristic_BareReturn(page, throws) ==
    IF throws THEN [k |-> "undefined", m |-> 0, e |-> 0]
    ELSE IF HeuristicFound(page) = << >> THEN Null
    ELSE normalizeNumberString(JStr(HeuristicFound(page)))

tryHeuristic(page, throws) ==
    IF throws THEN Null
    ELSE IF HeuristicFound(page) = << >> THEN Null
    ELSE normalizeNumberString(JStr(HeuristicFound(page)))

\* ------------------------------------------------------------------------
\* The documents of the run: what each URL renders to
\* ------------------------------------------------------------------------

PriceSelector == <<".", "p">>

\* about:blank, and the renderer's own error page
BlankPage ==
    [hasEl |-> FALSE, selFor |-> << >>, innerText |-> << >>, textContent |-> << >>,
     scripts |-> << >>, metas |-> << >>, els |-> << >>]

\* a product page that every strategy can read a (different) price from
ShopPage ==
    [hasEl |-> TRUE, selFor |-> PriceSelector,
     innerText |-> <<"1", ".", "2", "3", "4", ",", "5", "6", " ", Euro>>,
     textContent |-> <<"1", ".", "2", "3", "4", ",", "5", "6", " ", Euro>>,
     scripts |-> << Parsed(FALSE, << Item("object",
                        << Offer(JNum(Num(0, 0)), TRUE,
                                 JStr(<<"1", "1", "9", "9", ".", "0", "0">>)) >>) >>) >>,
     metas |-> << Meta(JNull, JStr(<<"o", "g", ":", "p", "r", "i", "c", "e", ":",
                                 "a", "m", "o",
                                 "u", "n",
                                 "t">>),
                       JStr(<<"1", ".", "1", "8", "0", ",", "0", "0">>)) >>,
     els |-> << <<"A", "n", "k", "a", "u", "f", "s", "p", "r", "e", "i", "s",
                  ":", " ", "1", ".", "0", "5", "0", ",", "0",
                  "0", " ", Euro>> >>]

\* structured data whose price is written the German way; its first script
\* does not parse
LocalePage ==
    [hasEl |-> FALSE, selFor |-> << >>, innerText |-> << >>, textContent |-> << >>,
     scripts |-> << Unparsable,
                    Parsed(TRUE, << Item("absent", << >>),
                                    Item("array",
                                         << Offer(JStr(<<"1", "2", ",", "5", "0">>),
                                                  FALSE, JUndefined) >>) >>) >>,
     metas |-> << Meta(JStr(<<"p", "r", "i", "c", "e">>), JNull,
                       JStr(<<"1", "2", ",", "5", "0">>)) >>,
     els |-> << >>]

\* a price in the third meta tag only; the structured data has no price
MetaPage ==
    [hasEl |-> FALSE, selFor |-> << >>, innerText |-> << >>, textContent |-> << >>,
     scripts |-> << Parsed(FALSE, << Item("object",
                        << Offer(JNum(Num(0, 0)), TRUE, JUndefined) >>) >>) >>,
     metas |-> << Meta(JStr(<<"d", "e", "s", "c", "r", "i", "p", "t", "i",
                               "o", "n">>), JNull,
                       JStr(<<"P", "r", "e", "i", "s", " ", "5">>)),
                  Meta(JStr(<<"P", "r", "o", "d", "u", "c", "t", ":", "P",
                               "r", "i", "c",
                               "e", ":", "A",
                               "m", "o", "u",
                               "n", "t">>),
                       JNull, JStr(<<"k", "e", "i", "n", " ", "P", "r", "e",
                                    "i",
                                    "s">>)),
                  Meta(JNull, JStr(<<"p", "r", "o", "d", "u", "c", "t", ":",
                                      "p",
                                      "r",
                                      "i",
                                      "c",
                                      "e",
                                      ":",
                                      "a",
                                      "m",
                                      "o",
                                      "u",
                                      "n",
                                      "t">>),
                       JStr(<<"9", "9", ",", "9", "9">>)) >>,
     els |-> << >>]

\* a price in the body text only, after an element that holds the currency
\* sign but no keyword
TextPage ==
    [hasEl |-> FALSE, selFor |-> << >>, innerText |-> << >>, textContent |-> << >>,
     scripts |-> << >>, metas |-> << >>,
     els |-> << <<"P", "r", "e", "i", "s", " ", "5", " ", Euro>>,
                <<"A", "n", "k", "a", "u", "f", "s", "p", "r", "e", "i", "s",
                  ":", " ", "1", ".", "0", "5", "0", ",", "0",
                  "0", " ", Euro>> >>]

\* the selector's element exists but holds no number, and nothing else does
EmptyPage ==
    [hasEl |-> TRUE, selFor |-> PriceSelector, innerText |-> << >>,
     textContent |-> <<"k", "e", "i", "n", " ", "P", "r", "e", "i", "s">>,
     scripts |-> << >>, metas |-> << >>,
     els |-> << <<"k", "e", "i", "n", " ", "P", "r", "e", "i", "s">> >>]

PageNames == {"blank", "shop", "locale", "meta", "text", "empty"}

Pages ==
    [n \in PageNames |->
        CASE n = "blank" -> BlankPage [] n = "shop" -> ShopPage
          [] n = "locale" -> LocalePage [] n = "meta" -> MetaPage
          [] n = "text" -> TextPage [] n = "empty" -> EmptyPage]

\* the document a successful navigation to the URL renders
Site(url) ==
    CASE url = "u/shop" -> "shop" [] url = "u/locale" -> "locale"
      [] url = "u/meta" -> "meta" [] url = "u/text" -> "text"
      [] url = "u/empty" -> "empty" [] OTHER -> "blank"

\* ------------------------------------------------------------------------
\* coins.json: the targets
\* ------------------------------------------------------------------------

Coin(id, url, selector) == [id |-> id, url |-> url, selector |-> selector]

\* the entries a coins.json of the model is made of: selectors that match,
\* that match nothing, absent, white space only, and one that is no string
Targets ==
    { Coin("a", "u/shop", JStr(PriceSelector)),
      Coin("b", "u/locale", JUndefined),
      Coin("c", "u/text", JStr(<<" ", " ">>)),
      Coin("d", "u/meta", JStr(<<" ">> \o PriceSelector)),
      Coin("e", "u/empty", JStr(PriceSelector)),
      Coin("f", "u/blank", JNum(Num(5, 0))),
      Coin("g", "u/shop", JStr(<< >>)) }

\* the longest coins.json of the model
MaxCoins == 2

RECURSIVE SeqsUpTo(_, _)
\* the lists of at most n entries of S, no entry twice (ids are unique)
SeqsUpTo(S, n) ==
    IF n = 0 THEN {<< >>}
    ELSE LET shorter == SeqsUpTo(S, n - 1)
             longest == {s \in shorter : Len(s) = n - 1}
             isNew(s, x) == \A i \in 1..Len(s) : s[i] # x
         IN shorter \cup
            {q \in {Append(s, x) : s \in longest, x \in S} :
                isNew(SubSeq(q, 1, n - 1), q[n])}

CoinLists == SeqsUpTo(Targets, MaxCoins)

\* ------------------------------------------------------------------------
\* The run: state
\* ------------------------------------------------------------------------

VARIABLES
    pc,        \* the statement of the async main function that runs next
    coins,     \* the parsed coins.json
    idx,       \* the position in coins of the coin the loop body works on
    page,      \* the name of the document the one shared page holds
    price,     \* the loop body's `price`
    notes,     \* the loop body's `notes`
    results,   \* `results`
    written,   \* the contents of each write of data/prices.json, in order
    waited,    \* the milliseconds of the polite delay just slept
    navFailed, \* history: page.goto threw for the current coin
    trace,     \* history: the strategy calls and returns of the current coin
    threw,     \* history: the step just taken was a strategy returning from its catch
    arg,       \* the call of a function taken on its own: its name and arguments
    ret        \* what that call returned

vars ==
    <<pc, coins, idx, page, price, notes, results, written, waited, navFailed,
      trace, threw, arg, ret>>

\* main calls no function on its own
NoCall == [fn |-> "none"]

\* a note: plain notes have no detail; 'page-load-failed: ' + message has one
Note(tag) == [tag |-> tag, detail |-> ""]
LoadFailedNote(message) == [tag |-> "page-load-failed: ", detail |-> message]

\* trace events: a strategy is called, a strategy returns v
Called(s) == [ev |-> "call", s |-> s, v |-> Null]
Returned(s, v) == [ev |-> "return", s |-> s, v |-> v]

coin == coins[idx]

Init ==
    /\ pc = "readFile"
    /\ coins = << >>
    /\ idx = 0
    /\ page = "blank"
    /\ price = Null
    /\ notes = << >>
    /\ results = << >>
    /\ written = << >>
    /\ waited = 0
    /\ navFailed = FALSE
    /\ trace = << >>
    /\ threw = FALSE
    /\ arg = NoCall
    /\ ret = Null

\* ------------------------------------------------------------------------
\* Setup
\* ------------------------------------------------------------------------

\* the catch of main: console.error, process.exit(2)
Fatal == pc' = "exit2"

\* fs.readFile and JSON.parse succeed
ReadCoins ==
    /\ pc = "readFile"
    /\ \E cs \in CoinLists : coins' = cs
    /\ pc' = "launch"
    /\ UNCHANGED <<idx, page, price, notes, results, written, waited,
                   navFailed, trace, threw, arg, ret>>

\* fs.readFile rejects or JSON.parse throws
ReadCoinsFails ==
    /\ pc = "readFile"
    /\ Fatal
    /\ UNCHANGED <<coins, idx, page, price, notes, results, written, waited,
                   navFailed, trace, threw, arg, ret>>

\* puppeteer.launch, newPage, setUserAgent, setViewport; results = []
Launch ==
    /\ pc = "launch"
    /\ page' = "blank"
    /\ results' = << >>
    /\ pc' = "for"
    /\ UNCHANGED <<coins, idx, price, notes, written, waited, navFailed,
                   trace, threw, arg, ret>>

LaunchFails ==
    /\ pc = "launch"
    /\ Fatal
    /\ UNCHANGED <<coins, idx, page, price, notes, results, written, waited,
                   navFailed, trace, threw, arg, ret>>

\* ------------------------------------------------------------------------
\* The loop over the coins
\* ------------------------------------------------------------------------

\* for (const coin of coins): the next coin; price = null, notes = []
\* mutant: price declared once, outside the loop body
NextCoin_KeepsPrice ==
    /\ pc = "for"
    /\ idx < Len(coins)
    /\ idx' = idx + 1
    /\ notes' = << >>
    /\ navFailed' = FALSE
    /\ trace' = << >>
    /\ threw' = FALSE
    /\ pc' = "goto"
    /\ UNCHANGED <<coins, page, price, results, written, waited, arg, ret>>

NextCoin ==
    /\ pc = "for"
    /\ idx < Len(coins)
    /\ idx' = idx + 1
    /\ price' = Null
    /\ notes' = << >>
    /\ navFailed' = FALSE
    /\ trace' = << >>
    /\ threw' = FALSE
    /\ pc' = "goto"
    /\ UNCHANGED <<coins, page, results, written, waited, arg, ret>>

\* the loop is over
LoopEnds ==
    /\ pc = "for"
    /\ idx = Len(coins)
    /\ pc' = "close"
    /\ UNCHANGED <<coins, idx, page, price, notes, results, written, waited,
                   navFailed, trace, threw, arg, ret>>

\* page.goto resolves: the page holds the document of the coin's URL
Goto ==
    /\ pc = "goto"
    /\ page' = Site(coin.url)
    /\ pc' = "selector?"
    /\ UNCHANGED <<coins, idx, price, notes, results, written, waited,
                   navFailed, trace, threw, arg, ret>>

TimeoutMessage == "Navigation timeout of 30000 ms exceeded"
NetErrorMessage == "net::ERR_CONNECTION_REFUSED"

\* what the page can hold after page.goto threw with the message: after a
\* timeout the document it held before or the new one (loaded, but never
\* idle), after a network error the renderer's error page
PageAfterFailure(message, before, url) ==
    IF message = TimeoutMessage THEN {before, Site(url)} ELSE {"blank"}

\* mutant: the catch of page.goto pushes nothing
GotoCatch_Silent(ns, message) == ns

\* the note the catch of page.goto pushes
GotoCatch(ns, message) == Append(ns, LoadFailedNote(message))

\* page.goto throws
GotoFails ==
    /\ pc = "goto"
    /\ \E message \in {TimeoutMessage, NetErrorMessage} :
           /\ notes' = GotoCatch(notes, message)
           /\ page' \in PageAfterFailure(message, page, coin.url)
    /\ navFailed' = TRUE
    /\ pc' = "selector?"
    /\ UNCHANGED <<coins, idx, price, results, written, waited, trace, threw, arg, ret>>

\* ------------------------------------------------------------------------
\* The strategy chain of the loop body
\* ------------------------------------------------------------------------

\* mutant: the check without trim, `if (coin.selector)`
SelectorCheck_NoTrim(selector) ==
    IF ~Truthy(selector) THEN "skip"
    ELSE IF selector.t # "string" THEN "throw"
    ELSE "call"

\* coin.selector && coin.selector.trim(): "call" when it is truthy, "skip"
\* when it is falsy, "throw" when coin.selector is truthy and no string
\* (it has no trim method: a TypeError, outside any try of the loop body)
SelectorCheck(selector) ==
    IF ~Truthy(selector) THEN "skip"
    ELSE IF selector.t # "string" THEN "throw"
    ELSE IF Truthy(JStr(Trim(selector.s))) THEN "call"
    ELSE "skip"

\* mutant: steps 2, 3 and 4 without their guard
ChainOpen_Always(pr) == TRUE

\* price === null: the guard of steps 2, 3 and 4
ChainOpen(pr) == pr = Null

\* mutant: step 1 pushes its note and forgets `price = p`
SelectorStep_NoAssign(p, ns) ==
    IF p # Null
    THEN [price |-> Null, notes |-> Append(ns, Note("selector"))]
    ELSE [price |-> Null, notes |-> Append(ns, Note("selector-not-found"))]

\* step 1, after trySelector returned p
SelectorStep(p, ns) ==
    IF p # Null
    THEN [price |-> p, notes |-> Append(ns, Note("selector"))]
    ELSE [price |-> Null, notes |-> Append(ns, Note("selector-not-found"))]

\* mutant: step 2 pushes the note of step 3
JSONLDStep_MetaTag(p, ns) ==
    IF p # Null
    THEN [price |-> p, notes |-> Append(ns, Note("meta"))]
    ELSE [price |-> Null, notes |-> ns]

\* step 2, after tryJSONLD returned p
JSONLDStep(p, ns) ==
    IF p # Null
    THEN [price |-> p, notes |-> Append(ns, Note("json-ld"))]
    ELSE [price |-> Null, notes |-> ns]

\* mutant: step 3 takes the price and pushes no note
MetaStep_NoNote(p, ns) == [price |-> p, notes |-> ns]

\* mutant: step 3 with an else branch that pushes a note of its own
MetaStep_NoteOnMiss(p, ns) ==
    IF p # Null
    THEN [price |-> p, notes |-> Append(ns, Note("meta"))]
    ELSE [price |-> Null, notes |-> Append(ns, Note("meta-not-found"))]

\* step 3, after tryMeta returned p
MetaStep(p, ns) ==
    IF p # Null
    THEN [price |-> p, notes |-> Append(ns, Note("meta"))]
    ELSE [price |-> Null, notes |-> ns]

\* mutant: step 4 without its else branch
HeuristicStep_NoNotFound(p, ns) ==
    IF p # Null
    THEN [price |-> p, notes |-> Append(ns, Note("heuristic"))]
    ELSE [price |-> Null, notes |-> ns]

\* step 4, after tryHeuristic returned p
HeuristicStep(p, ns) ==
    IF p # Null
    THEN [price |-> p, notes |-> Append(ns, Note("heuristic"))]
    ELSE [price |-> Null, notes |-> Append(ns, Note("not-found"))]

\* coin.selector.trim is not a function: caught by the catch of main
SelectorCheckThrows ==
    /\ pc = "selector?"
    /\ SelectorCheck(coin.selector) = "throw"
    /\ Fatal
    /\ UNCHANGED <<coins, idx, page, price, notes, results, written, waited,
                   navFailed, trace, threw, arg, ret>>

SkipSelector ==
    /\ pc = "selector?"
    /\ SelectorCheck(coin.selector) = "skip"
    /\ threw' = FALSE
    /\ pc' = "jsonld?"
    /\ UNCHANGED <<coins, idx, page, price, notes, results, written, waited,
                   navFailed, trace, arg, ret>>

CallSelector ==
    /\ pc = "selector?"
    /\ SelectorCheck(coin.selector) = "call"
    /\ trace' = Append(trace, Called("selector"))
    /\ threw' = FALSE
    /\ pc' = "trySelector"
    /\ UNCHANGED <<coins, idx, page, price, notes, results, written, waited,
                   navFailed, arg, ret>>

ReturnSelector ==
    /\ pc = "trySelector"
    /\ \E throws \in BOOLEAN :
           LET p == trySelector(Pages[page], coin.selector.s, throws)
               after == SelectorStep(p, notes)
           IN /\ price' = after.price
              /\ notes' = after.notes
              /\ trace' = Append(trace, Returned("selector", p))
              /\ threw' = throws
    /\ pc' = "jsonld?"
    /\ UNCHANGED <<coins, idx, page, results, written, waited, navFailed, arg, ret>>

CallJSONLD ==
    /\ pc = "jsonld?"
    /\ ChainOpen(price)
    /\ trace' = Append(trace, Called("json-ld"))
    /\ threw' = FALSE
    /\ pc' = "tryJSONLD"
    /\ UNCHANGED <<coins, idx, page, price, notes, results, written, waited,
                   navFailed, arg, ret>>

SkipJSONLD ==
    /\ pc = "jsonld?"
    /\ ~ChainOpen(price)
    /\ threw' = FALSE
    /\ pc' = "meta?"
    /\ UNCHANGED <<coins, idx, page, price, notes, results, written, waited,
                   navFailed, trace, arg, ret>>

ReturnJSONLD ==
    /\ pc = "tryJSONLD"
    /\ \E throws \in BOOLEAN :
           LET p == tryJSONLD(Pages[page], throws)
               after == JSONLDStep(p, notes)
           IN /\ price' = after.price
              /\ notes' = after.notes
              /\ trace' = Append(trace, Returned("json-ld", p))
              /\ threw' = throws
    /\ pc' = "meta?"
    /\ UNCHANGED <<coins, idx, page, results, written, waited, navFailed, arg, ret>>

CallMeta ==
    /\ pc = "meta?"
    /\ ChainOpen(price)
    /\ trace' = Append(trace, Called("meta"))
    /\ threw' = FALSE
    /\ pc' = "tryMeta"
    /\ UNCHANGED <<coins, idx, page, price, notes, results, written, waited,
                   navFailed, arg, ret>>

SkipMeta ==
    /\ pc = "meta?"
    /\ ~ChainOpen(price)
    /\ threw' = FALSE
    /\ pc' = "heuristic?"
    /\ UNCHANGED <<coins, idx, page, price, notes, results, written, waited,
                   navFailed, trace, arg, ret>>

ReturnMeta ==
    /\ pc = "tryMeta"
    /\ \E throws \in BOOLEAN :
           LET p == tryMeta(Pages[page], throws)
               after == MetaStep(p, notes)
           IN /\ price' = after.price
              /\ notes' = after.notes
              /\ trace' = Append(trace, Returned("meta", p))
              /\ threw' = throws
    /\ pc' = "heuristic?"
    /\ UNCHANGED <<coins, idx, page, results, written, waited, navFailed, arg, ret>>

CallHeuristic ==
    /\ pc = "heuristic?"
    /\ ChainOpen(price)
    /\ trace' = Append(trace, Called("heuristic"))
    /\ threw' = FALSE
    /\ pc' = "tryHeuristic"
    /\ UNCHANGED <<coins, idx, page, price, notes, results, written, waited,
                   navFailed, arg, ret>>

SkipHeuristic ==
    /\ pc = "heuristic?"
    /\ ~ChainOpen(price)
    /\ threw' = FALSE
    /\ pc' = "delay"
    /\ UNCHANGED <<coins, idx, page, price, notes, results, written, waited,
                   navFailed, trace, arg, ret>>

ReturnHeuristic ==
    /\ pc = "tryHeuristic"
    /\ \E throws \in BOOLEAN :
           LET p == tryHeuristic(Pages[page], throws)
               after == HeuristicStep(p, notes)
           IN /\ price' = after.price
              /\ notes' = after.notes
              /\ trace' = Append(trace, Returned("heuristic", p))
              /\ threw' = throws
    /\ pc' = "delay"
    /\ UNCHANGED <<coins, idx, page, results, written, waited, navFailed, arg, ret>>

\* the polite delay: 1500 + Math.floor(Math.random() * 800) milliseconds
BaseDelay == 1500
JitterRange == 800
Delays == {BaseDelay, BaseDelay + JitterRange - 1}

Delay ==
    /\ pc = "delay"
    /\ waited' \in Delays
    /\ threw' = FALSE
    /\ pc' = "push"
    /\ UNCHANGED <<coins, idx, page, price, notes, results, written,
                   navFailed, trace, arg, ret>>

\* mutant: ok: !!price
ScrapeResult_TruthyOk(c, pr, ns) ==
    [id |-> c.id, url |-> c.url, price_eur |-> pr,
     ok |-> IsFinite(pr) /\ pr.m # 0, notes |-> ns]

\* the object pushed to results (name, metal and fineInGrams are copied
\* from the coin like id and url and are left out)
ScrapeResult(c, pr, ns) ==
    [id |-> c.id, url |-> c.url, price_eur |-> pr, ok |-> pr # Null, notes |-> ns]

\* mutant: only a coin with a price gets a result
PushResult_OnlyFound ==
    /\ pc = "push"
    /\ results' = IF price # Null
                  THEN Append(results, [id |-> coin.id, url |-> coin.url,
                                        price_eur |-> price, ok |-> TRUE,
                                        notes |-> notes])
                  ELSE results
    /\ waited' = 0
    /\ pc' = "for"
    /\ UNCHANGED <<coins, idx, page, price, notes, written, navFailed, trace,
                   threw, arg, ret>>

PushResult ==
    /\ pc = "push"
    /\ results' = Append(results, ScrapeResult(coin, price, notes))
    /\ waited' = 0
    /\ pc' = "for"
    /\ UNCHANGED <<coins, idx, page, price, notes, written, navFailed, trace,
                   threw, arg, ret>>

\* ------------------------------------------------------------------------
\* After the loop
\* ------------------------------------------------------------------------

Close ==
    /\ pc = "close"
    /\ pc' = "write"
    /\ UNCHANGED <<coins, idx, page, price, notes, results, written, waited,
                   navFailed, trace, threw, arg, ret>>

\* browser.close rejects
CloseFails ==
    /\ pc = "close"
    /\ Fatal
    /\ UNCHANGED <<coins, idx, page, price, notes, results, written, waited,
                   navFailed, trace, threw, arg, ret>>

\* JSON.stringify of a number: NaN and Infinity are written as null
StringifyNumber(n) == IF IsFinite(n) THEN n ELSE Null

\* JSON.stringify of the items, read back
Stringify(items) ==
    [k \in 1..Len(items) |->
        [items[k] EXCEPT !.price_eur = StringifyNumber(@)]]

\* fs.mkdir and fs.writeFile succeed; process.exit(0)
WriteReport ==
    /\ pc = "write"
    /\ written' = Append(written, Stringify(results))
    /\ pc' = "exit0"
    /\ UNCHANGED <<coins, idx, page, price, notes, results, waited, navFailed,
                   trace, threw, arg, ret>>

WriteFails ==
    /\ pc = "write"
    /\ Fatal
    /\ UNCHANGED <<coins, idx, page, price, notes, results, written, waited,
                   navFailed, trace, threw, arg, ret>>

Next ==
    \/ ReadCoins \/ ReadCoinsFails \/ Launch \/ LaunchFails
    \/ NextCoin \/ LoopEnds \/ Goto \/ GotoFails
    \/ SelectorCheckThrows \/ SkipSelector \/ CallSelector \/ ReturnSelector
    \/ CallJSONLD \/ SkipJSONLD \/ ReturnJSONLD
    \/ CallMeta \/ SkipMeta \/ ReturnMeta
    \/ CallHeuristic \/ SkipHeuristic \/ ReturnHeuristic
    \/ Delay \/ PushResult
    \/ Close \/ CloseFails \/ WriteReport \/ WriteFails

Spec == Init /\ [][Next]_vars

\* ------------------------------------------------------------------------
\* Properties
\* ------------------------------------------------------------------------

\* the loop body is at work on coins[idx]
InLoopBody == idx \in 1..Len(coins) /\ pc \notin {"for", "close", "write", "exit0"}

\* the chain of the current coin is over and its result is about to be pushed
AtPush == pc = "push"

Last(seq) == seq[Len(seq)]

IsPrefix(a, b) == Len(a) <= Len(b) /\ SubSeq(b, 1, Len(a)) = a

\* the strategies called so far for the current coin, in call order
CalledStrategies ==
    LET calls == SelectSeq(trace, LAMBDA e : e.ev = "call")
    IN [k \in 1..Len(calls) |-> calls[k].s]

\* the values returned so far for the current coin, in return order
ReturnedValues ==
    LET rets == SelectSeq(trace, LAMBDA e : e.ev = "return")
    IN [k \in 1..Len(rets) |-> rets[k].v]

\* a selector is configured: a string with something other than white space
Configured(c) == c.selector.t = "string" /\ Trim(c.selector.s) # << >>

StrategyOrder == <<"selector", "json-ld", "meta", "heuristic">>

\* the order of the chain for a coin
OrderFor(c) == IF Configured(c) THEN StrategyOrder ELSE Tail(StrategyOrder)

HasNote(ns, tag) == \E k \in 1..Len(ns) : ns[k].tag = tag

LoadFailedTag == "page-load-failed: "

\* the notes without the navigation note
StrategyNotes(ns) == SelectSeq(ns, LAMBDA n : n.tag # LoadFailedTag)

\* C1: for every target and page the strategies are invoked in the order
\* Selector (only when a selector is configured), JSON-LD, Meta, Heuristic,
\* each only after the one before it has returned, and none is invoked after
\* a strategy has returned a value; the chain ends only with a value or with
\* every strategy of the order invoked.
C1_ChainOrder ==
    InLoopBody =>
        /\ \A k \in 1..Len(trace) :
              /\ trace[k].ev = (IF k % 2 = 1 THEN "call" ELSE "return")
              /\ k % 2 = 0 => trace[k].s = trace[k - 1].s
        /\ IsPrefix(CalledStrategies, OrderFor(coin))
        /\ \A k \in 1..Len(trace) :
              (trace[k].ev = "return" /\ trace[k].v # Null) => k = Len(trace)
        /\ pc \in {"delay", "push"} =>
              \/ Last(trace).ev = "return" /\ Last(trace).v # Null
              \/ CalledStrategies = OrderFor(coin)

\* a configured selector returned nothing, JSON-LD returned a value, and
\* neither Meta nor Heuristic was invoked
C1_Witness ==
    /\ AtPush
    /\ Configured(coin)
    /\ CalledStrategies = <<"selector", "json-ld">>
    /\ ReturnedValues[1] = Null /\ ReturnedValues[2] # Null

\* C2 (as claimed): the price of every result pushed is null or a finite
\* number.
C2_PriceFiniteOrNull ==
    \A k \in 1..Len(results) :
        results[k].price_eur = Null \/ IsFinite(results[k].price_eur)

\* C3: every result pushed has ok = (price # null).
C3_OkIffPrice ==
    \A k \in 1..Len(results) : results[k].ok = (results[k].price_eur # Null)

\* a result without a price and a result whose price is no finite number
C3_Witness ==
    /\ \E k \in 1..Len(results) : ~results[k].ok /\ results[k].price_eur = Null
    /\ \E k \in 1..Len(results) : results[k].ok /\ ~IsFinite(results[k].price_eur)

RECURSIVE NotesOfAttempts(_)
\* the notes the returns of a trace leave in the code: Selector and
\* Heuristic leave one whatever they return, JSON-LD and Meta only for a value
NotesOfAttempts(tr) ==
    IF tr = << >> THEN << >>
    ELSE LET e == tr[1]
             rest == NotesOfAttempts(Tail(tr))
         IN IF e.ev # "return" THEN rest
            ELSE IF e.v # Null THEN <<Note(e.s)>> \o rest
            ELSE IF e.s = "selector" THEN <<Note("selector-not-found")>> \o rest
            ELSE IF e.s = "heuristic" THEN <<Note("not-found")>> \o rest
            ELSE rest

\* C4 (as claimed): every strategy attempted for a target, whether it
\* succeeded or failed, contributes exactly one note to the target's notes.
C4_OneNotePerAttempt ==
    AtPush => Len(StrategyNotes(notes)) = Len(ReturnedValues)

\* C4 (amended): the notes hold, in the order the strategies were attempted,
\* one note for the Selector strategy when it was attempted ("selector" or
\* "selector-not-found"), one note for the JSON-LD and for the Meta strategy
\* only when it returned a value, and one note for the Heuristic strategy
\* when it was attempted ("heuristic" or "not-found").
C4_NotesOfAttempts ==
    InLoopBody => StrategyNotes(notes) = NotesOfAttempts(trace)

\* JSON-LD and Meta were attempted and returned nothing, Heuristic returned
\* a value: three attempts, one note
C4_Witness ==
    /\ AtPush
    /\ CalledStrategies = <<"json-ld", "meta", "heuristic">>
    /\ notes = <<Note("heuristic")>>

\* the selector strategy was attempted first and returned a value
SelectorWon ==
    /\ AtPush
    /\ Configured(coin)
    /\ Len(trace) >= 2 /\ trace[2].s = "selector" /\ trace[2].v # Null

\* C5 (as claimed): when the selector's element is found and its text
\* normalizes, the price is the selector strategy's value and the notes are
\* exactly ["selector"].
C5_SelectorOnlyNote ==
    SelectorWon =>
        /\ ScrapeResult(coin, price, notes).price_eur = trace[2].v
        /\ ScrapeResult(coin, price, notes).notes = <<Note("selector")>>

\* C5 (amended): when the selector's element is found and its text
\* normalizes, the price is the selector strategy's value, whatever JSON-LD
\* would yield (it is not invoked), and the notes are exactly ["selector"]
\* after a navigation that succeeded and ["page-load-failed: <detail>",
\* "selector"] after one that failed.
C5_SelectorWins ==
    SelectorWon =>
        /\ ScrapeResult(coin, price, notes).price_eur = trace[2].v
        /\ trace[2].v = normalizeNumberString(ElementText(Pages[page]))
        /\ CalledStrategies = <<"selector">>
        /\ StrategyNotes(ScrapeResult(coin, price, notes).notes) = <<Note("selector")>>
        /\ ~navFailed => notes = <<Note("selector")>>
        /\ navFailed =>
              /\ Len(notes) = 2
              /\ notes[1].tag = LoadFailedTag
              /\ notes[2] = Note("selector")

\* the selector won on a page whose JSON-LD yields another price, after a
\* navigation that succeeded
C5_Witness ==
    /\ SelectorWon
    /\ ~navFailed
    /\ tryJSONLD(Pages[page], FALSE) # Null
    /\ tryJSONLD(Pages[page], FALSE) # price

\* C6: when every strategy attempted returned NotFound the result has price
\* null, ok false and "not-found" as its last note; and a result holds the
\* note "not-found" only when its price is null.
C6_NotFound ==
    /\ (AtPush /\ \A k \in 1..Len(ReturnedValues) : ReturnedValues[k] = Null) =>
           LET r == ScrapeResult(coin, price, notes)
           IN r.price_eur = Null /\ ~r.ok /\ Last(r.notes) = Note("not-found")
    /\ \A k \in 1..Len(results) :
           /\ HasNote(results[k].notes, "not-found") => results[k].price_eur = Null
           /\ results[k].price_eur = Null =>
                  ~results[k].ok /\ Last(results[k].notes) = Note("not-found")

\* all four strategies were attempted, none returned a value, and the result
\* is in the report
C6_Witness ==
    /\ pc = "for"
    /\ results # << >>
    /\ Len(trace) = 8
    /\ \A k \in 1..4 : ReturnedValues[k] = Null
    /\ Last(results).price_eur = Null

\* the loop has ended normally
BatchDone == pc \in {"close", "write", "exit0"}

\* C7: after the batch has processed N targets, results has N entries and
\* the i-th carries the id of the i-th target; the same holds of the items
\* written.
C7_OneResultPerTarget ==
    /\ Len(results) <= Len(coins)
    /\ \A k \in 1..Len(results) : results[k].id = coins[k].id
    /\ pc \in {"for", "close", "write", "exit0"} => Len(results) = idx
    /\ BatchDone => Len(results) = Len(coins)
    /\ pc = "exit0" =>
           /\ Len(written) = 1
           /\ Len(written[1]) = Len(coins)
           /\ \A k \in 1..Len(coins) : written[1][k].id = coins[k].id

\* a batch of two different targets, the first with a failed navigation and
\* no price, the second with a price
C7_Witness ==
    /\ pc = "exit0"
    /\ Len(coins) = 2
    /\ coins[1].id # coins[2].id
    /\ HasNote(results[1].notes, LoadFailedTag) /\ ~results[1].ok
    /\ results[2].ok

C9_FailedNavigationFindsNothing ==
    \A k \in 1..Len(results) :
        HasNote(results[k].notes, LoadFailedTag) =>
            /\ results[k].price_eur = Null
            /\ ~results[k].ok
            /\ HasNote(results[k].notes, "not-found")

\* what the strategies of the chain for coin c read from a document
ReadableValues(doc, c) ==
    ( (IF Configured(c) THEN {trySelector(doc, c.selector.s, FALSE)} ELSE {})
      \cup {tryJSONLD(doc, FALSE), tryMeta(doc, FALSE), tryHeuristic(doc, FALSE)} )
    \ {Null}

\* C9 (amended): when navigation fails for a target the strategies run on
\* whatever document the shared page then holds.  When that document gives
\* nothing to any strategy (always so for the blank page) the result has
\* price null, ok false and "not-found" as its last note; when the page holds
\* content (the document of the previous target, or the new document that
\* loaded without the navigation completing) a strategy can succeed, and
\* the result then has a price read from that document, ok true and no
\* "not-found" note.
C9_FailedNavigationReadsPage ==
    /\ (AtPush /\ navFailed) =>
           LET r == ScrapeResult(coin, price, notes)
               readable == ReadableValues(Pages[page], coin)
           IN /\ r.notes[1].tag = LoadFailedTag
              /\ (r.price_eur = Null) = HasNote(r.notes, "not-found")
              /\ r.ok = ~HasNote(r.notes, "not-found")
              /\ (page = "blank" \/ readable = {}) =>
                     r.price_eur = Null /\ ~r.ok /\ Last(r.notes) = Note("not-found")
              /\ r.price_eur # Null => r.price_eur \in readable
    /\ \A k \in 1..Len(results) :
           HasNote(results[k].notes, LoadFailedTag) =>
               /\ (results[k].price_eur = Null) = HasNote(results[k].notes, "not-found")
               /\ results[k].ok = ~HasNote(results[k].notes, "not-found")

\* the second target's navigation failed, the page still holds the first
\* target's document, and a price was read from it
C9_Witness ==
    /\ AtPush
    /\ navFailed
    /\ idx = 2
    /\ page = Site(coins[1].url)
    /\ page # Site(coin.url)
    /\ price # Null

\* the statement after the step of a strategy
StageAfter(s) ==
    CASE s = "selector" -> "jsonld?" [] s = "json-ld" -> "meta?"
      [] s = "meta" -> "heuristic?" [] s = "heuristic" -> "delay"

\* C10: a failure inside a strategy makes that strategy return NotFound and
\* nothing else: the price stays null, the notes get what a NotFound of that
\* strategy leaves, the chain goes to the next step, nothing else changes;
\* and the fatal exit is never taken from inside a strategy or anywhere in
\* the chain after the selector check.
C10_StrategyFailureIsLocal ==
    [][ /\ threw' =>
              LET e == Last(trace')
              IN /\ trace # << >> /\ Last(trace) = Called(e.s)
                 /\ trace' = Append(trace, Returned(e.s, Null))
                 /\ price = Null /\ price' = Null
                 /\ notes' = notes \o NotesOfAttempts(<<e>>)
                 /\ pc' = StageAfter(e.s)
                 /\ UNCHANGED <<coins, idx, page, results, written, arg, ret>>
        /\ (pc' = "exit2" /\ pc # "exit2") =>
              pc \in {"readFile", "launch", "selector?", "close", "write"}
      ]_vars

\* JSON-LD failed on a page whose structured data holds a price, and the
\* chain is at the Meta step
C10_Witness ==
    /\ threw
    /\ pc = "meta?"
    /\ Last(trace) = Returned("json-ld", Null)
    /\ tryJSONLD(Pages[page], FALSE) # Null

\* C11: the run fails fatally only before the first target is processed; once
\* target processing has started every target is attempted and the report is
\* written exactly once, after the last target; a run that fails fatally
\* writes no report
C11_FatalOnlyInSetup ==
    /\ pc = "exit2" => idx = 0 /\ written = << >>
    /\ Len(written) <= 1
    /\ written # << >> => pc = "exit0" /\ Len(results) = Len(coins)
    /\ pc = "exit0" => Len(written) = 1

\* no selector is configured: the field is absent, empty or only white space
NoSelector(c) ==
    \/ c.selector = JUndefined
    \/ /\ c.selector.t = "string"
       /\ \A k \in 1..Len(c.selector.s) : c.selector.s[k] \in WhiteSpace

\* the number of notes of ns with the given tag
CountNotes(ns, tag) == Len(SelectSeq(ns, LAMBDA n : n.tag = tag))

\* the Selector strategy has returned NotFound for the current coin
SelectorReturnedNotFound ==
    \E k \in 1..Len(trace) : trace[k] = Returned("selector", Null)

\* C12: with no selector configured (absent, empty or only white space) the
\* Selector strategy is not invoked and the notes hold neither "selector" nor
\* "selector-not-found"; with a selector configured and the Selector strategy
\* returning NotFound, the notes hold "selector-not-found" exactly once, before
\* the note of any later strategy
C12_SelectorNotes ==
    InLoopBody =>
        /\ NoSelector(coin) =>
               /\ \A k \in 1..Len(trace) : trace[k].s # "selector"
               /\ ~HasNote(notes, "selector")
               /\ ~HasNote(notes, "selector-not-found")
        /\ ~NoSelector(coin) /\ SelectorReturnedNotFound =>
               /\ CountNotes(notes, "selector-not-found") = 1
               /\ StrategyNotes(notes)[1].tag = "selector-not-found"

\* a target with an empty selector on a page that has the element of the
\* usual selector gets its price from JSON-LD, after a target whose
\* configured selector found nothing and whose meta tag gave the price
C12_Witness ==
    /\ AtPush /\ idx = 2
    /\ coin.selector = JStr(<< >>) /\ page = "shop"
    /\ [k \in 1..Len(notes) |-> notes[k].tag] = <<"json-ld">>
    /\ results[1].id = "d"
    /\ [k \in 1..Len(results[1].notes) |-> results[1].notes[k].tag]
           = <<"selector-not-found", "meta">>

\* ---- the pipeline run twice for one target against one page ----

\* coins.json lists one target twice in a row, alone or after another target
TwiceLists ==
    {<<t, t>> : t \in Targets}
        \cup {<<x, t, t>> : x \in Targets \ {Coin("f", "u/blank", JNum(Num(5, 0)))},
                            t \in Targets}

\* fs.readFile and JSON.parse of such a coins.json
ReadTwice ==
    /\ pc = "readFile"
    /\ \E cs \in TwiceLists : coins' = cs
    /\ pc' = "launch"
    /\ UNCHANGED <<idx, page, price, notes, results, written, waited,
                   navFailed, trace, threw, arg, ret>>

\* the second run of a target reads the document its first run read: the
\* navigation of the second run leaves the page as it is
SamePage ==
    pc = "goto" /\ idx >= 2 /\ coins[idx - 1] = coins[idx] => page' = page

NextTwice ==
    \/ ReadTwice
    \/ pc # "readFile" /\ SamePage /\ Next

SpecTwice == Init /\ [][NextTwice]_vars

\* what a strategy reads from a document when its page queries succeed
ReadFrom(s, c, doc) ==
    CASE s = "selector" -> trySelector(doc, c.selector.s, FALSE)
      [] s = "json-ld" -> tryJSONLD(doc, FALSE)
      [] s = "meta" -> tryMeta(doc, FALSE)
      [] s = "heuristic" -> tryHeuristic(doc, FALSE)

\* the strategies of the chain of c that read a value from doc, in chain order
Finders(c, doc) ==
    SelectSeq(OrderFor(c), LAMBDA s : ReadFrom(s, c, doc) # Null)

\* the price that the target and the document determine
PriceOf(c, doc) ==
    IF Finders(c, doc) = << >> THEN Null
    ELSE ReadFrom(Head(Finders(c, doc)), c, doc)

\* the tags of the strategy notes that the target and the document determine
TagsOf(c, doc) ==
    LET missed == IF Configured(c)
                     /\ (Finders(c, doc) = << >>
                         \/ Head(Finders(c, doc)) # "selector")
                  THEN <<"selector-not-found">> ELSE << >>
    IN missed \o (IF Finders(c, doc) = << >> THEN <<"not-found">>
                  ELSE <<Head(Finders(c, doc))>>)

Tags(ns) == [k \in 1..Len(ns) |-> ns[k].tag]

\* every strategy called for the current coin returned what it reads from
\* the document: no page query failed to the effect of hiding a value
QueriesAnswered ==
    \A k \in 1..Len(trace) :
        trace[k].ev = "return"
            => trace[k].v = ReadFrom(trace[k].s, coin, Pages[page])

\* the second of two runs for one target is about to push its result
SecondRun == AtPush /\ idx >= 2 /\ coins[idx - 1] = coins[idx]

MaxLen == 3

\* the most ld+json scripts, meta elements and body elements of a document
MaxScripts == 2
MaxMetas == 2
MaxEls == 2

SeqsOver(S, n) == UNION {[1..k -> S] : k \in 0..n}

NormAlphabet == {"1", "5", ".", ",", " ", "k"}

GermanGrouped ==
    <<"1", ".", "2", "3", "4", ",", "5", "6">>
SpaceGrouped ==
    <<"1", " ", "2", "3", "4", ",", "5", "6", " ", Euro>>
NarrowSpaceGrouped ==
    <<"1", NNBSP, "2", "3", "4", ",", "5", "6">>
PlainDecimal ==
    <<"9", "9", ",", "9", "9">>
NoPrice ==
    <<"k", "e", "i", "n", " ", "P", "r", "e", "i", "s">>
UngroupedComma ==
    <<"1", "2", "3", "4", ",", "5", "6">>
UngroupedPoint ==
    <<"1", "2", "3", "4", ".", "5", "6">>
LongUngrouped ==
    <<"1", "2", "3", "4", "5">>
TwoNumbers ==
    <<"a", "b", " ", "1", "2", ",", "5", " ", "u", "n", "d", " ", "7">>

NormExamples ==
    {GermanGrouped, SpaceGrouped, NarrowSpaceGrouped, PlainDecimal, NoPrice,
     UngroupedComma, UngroupedPoint, LongUngrouped, TwoNumbers}

\* what the callers pass: a text or null; and values of other types
NormInputs ==
    {JNull, JUndefined, JNum(Num(5, 0)), JBool(TRUE), JObject}
        \cup {JStr(s) : s \in SeqsOver(NormAlphabet, MaxLen) \cup NormExamples}

NormCalls ==
    {[fn |-> "normalizeNumberString", v |-> v, doc |-> BlankPage,
      throws |-> FALSE] : v \in NormInputs}

\* ld+json scripts: unparsable; one object with a price; an array whose
\* second item has the price in the priceSpecification of its first offer;
\* an array item whose first offer has no price and whose second has one; an
\* object whose price is 0; an empty array
ScriptKinds ==
    { Unparsable,
      Parsed(FALSE, << Item("object", << Offer(JStr(<<"1", "0">>), FALSE, JUndefined) >>) >>),
      Parsed(TRUE, << Item("absent", << >>),
                      Item("array", << Offer(JNum(Num(0, 0)), TRUE, JNum(Num(20, 0))),
                                       Offer(JStr(<<"9", "9">>), FALSE, JUndefined) >>) >>),
      Parsed(TRUE, << Item("array", << Offer(JUndefined, TRUE, JUndefined),
                                       Offer(JStr(<<"3", "0">>), FALSE, JUndefined) >>) >>),
      Parsed(FALSE, << Item("object", << Offer(JNum(Num(0, 0)), FALSE, JUndefined) >>) >>),
      Parsed(TRUE, << >>) }

\* meta elements: name with "price"; property with "price" and no name; a
\* name without and a property with "price"; a name with "Price" and a
\* content without a number; a name with "price" and no content; neither
MetaKinds ==
    { Meta(JStr(<<"p", "r", "i", "c", "e">>), JNull, JStr(<<"1", "2", ",", "5", "0">>)),
      Meta(JNull, JStr(<<"o", "g", ":", "p", "r", "i", "c", "e", ":", "a", "m", "o", "u", "n", "t">>), JStr(<<"1", ".", "1", "8", "0", ",", "0", "0">>)),
      Meta(JStr(<<"d", "e", "s", "c", "r", "i", "p", "t", "i", "o", "n">>), JStr(<<"p", "r", "o", "d", "u", "c", "t", ":", "p", "r", "i", "c", "e", ":", "a", "m", "o", "u", "n", "t">>), JStr(<<"9", "9", ",", "9", "9">>)),
      Meta(JStr(<<"P", "r", "o", "d", "u", "c", "t", ":", "P", "r", "i", "c", "e">>), JNull, JStr(<<"k", "e", "i", "n", " ", "P", "r", "e", "i", "s">>)),
      Meta(JStr(<<"p", "r", "i", "c", "e">>), JNull, JNull),
      Meta(JStr(<<"d", "e", "s", "c", "r", "i", "p", "t", "i", "o", "n">>), JNull, JStr(<<"5">>)) }

\* body elements by their innerText: none; the currency sign and a number;
\* a keyword and a number; a keyword in capitals, a grouped number and the
\* currency sign; a keyword alone; neither keyword nor currency sign
ElKinds ==
    { << >>,
      <<"P", "r", "e", "i", "s", " ", "5", " ", Euro>>,
      <<"A", "n", "k", "a", "u", "f", " ", "7">>,
      <<"A", "N", "K", "A", "U", "F", "S", "P", "R", "E", "I", "S", ":", " ", "1", ".", "0", "5", "0", ",", "0", "0", " ", Euro>>,
      <<"A", "n", "k", "a", "u", "f">>,
      <<"k", "e", "i", "n", " ", "P", "r", "e", "i", "s">> }

DocsWith(field, seqs) == {[BlankPage EXCEPT ![field] = s] : s \in seqs}

StrategyCalls ==
    {[fn |-> "tryJSONLD", v |-> JNull, doc |-> d, throws |-> th] :
        d \in DocsWith("scripts", SeqsOver(ScriptKinds, MaxScripts)), th \in BOOLEAN}
    \cup
    {[fn |-> "tryMeta", v |-> JNull, doc |-> d, throws |-> th] :
        d \in DocsWith("metas", SeqsOver(MetaKinds, MaxMetas)), th \in BOOLEAN}
    \cup
    {[fn |-> "tryHeuristic", v |-> JNull, doc |-> d, throws |-> th] :
        d \in DocsWith("els", SeqsOver(ElKinds, MaxEls)), th \in BOOLEAN}

InitFn ==
    /\ pc = "call"
    /\ coins = << >> /\ idx = 0 /\ page = "blank"
    /\ price = Null /\ notes = << >> /\ results = << >> /\ written = << >>
    /\ waited = 0 /\ navFailed = FALSE /\ trace = << >> /\ threw = FALSE
    /\ arg \in NormCalls \cup StrategyCalls
    /\ ret = Null

progVars ==
    <<coins, idx, page, price, notes, results, written, waited, navFailed,
      trace, threw>>

CallNormalize ==
    /\ pc = "call" /\ arg.fn = "normalizeNumberString"
    /\ ret' = normalizeNumberString(arg.v)
    /\ pc' = "returned"
    /\ UNCHANGED <<arg, progVars>>

CallTryJSONLD ==
    /\ pc = "call" /\ arg.fn = "tryJSONLD"
    /\ ret' = tryJSONLD(arg.doc, arg.throws)
    /\ pc' = "returned"
    /\ UNCHANGED <<arg, progVars>>

CallTryMeta ==
    /\ pc = "call" /\ arg.fn = "tryMeta"
    /\ ret' = tryMeta(arg.doc, arg.throws)
    /\ pc' = "returned"
    /\ UNCHANGED <<arg, progVars>>

CallTryHeuristic ==
    /\ pc = "call" /\ arg.fn = "tryHeuristic"
    /\ ret' = tryHeuristic(arg.doc, arg.throws)
    /\ pc' = "returned"
    /\ UNCHANGED <<arg, progVars>>

NextFn == CallNormalize \/ CallTryJSONLD \/ CallTryMeta \/ CallTryHeuristic

SpecFn == InitFn /\ [][NextFn]_vars

\* a call has returned
Returns(fn) == pc = "returned" /\ arg.fn = fn

\* the argument is a text that holds a digit
TextWithDigit(v) == v.t = "string" /\ \E k \in 1..Len(v.s) : v.s[k] \in Digits

\* the decimal number written by a text of digits with at most one "."
DecimalOf(s) ==
    IF s = << >> THEN Num(0, 0)
    ELSE IF \E k \in 1..Len(s) : s[k] = "."
    THEN LET d == CHOOSE k \in 1..Len(s) : s[k] = "."
             whole == SubSeq(s, 1, d - 1)
             frac == SubSeq(s, d + 1, Len(s))
         IN Num(DigitsValue(whole \o frac), Len(frac))
    ELSE Num(DigitsValue(s), 0)

\* the first numeric match of the text with its spaces and dots removed and
\* its comma turned into the decimal point
CleanedMatch(s) ==
    LET prepared == Trim(CollapseWS(RemoveChars(s, {NNBSP})))
        kept == SelectSeq(NumberMatch(prepared),
                          LAMBDA ch : ch \notin WhiteSpace /\ ch # ".")
    IN [k \in 1..Len(kept) |-> IF kept[k] = "," THEN "." ELSE kept[k]]

\* C14: the normalizer returns 1234.56 for "1.234,56" and for "1 234,56 EUR",
\* 99.99 for "99,99", null for "kein Preis" and for a null input; in general
\* null for an input that is no text and for a text with no digit, and
\* otherwise the number formed from the first numeric match after removing
\* spaces and dots and turning the comma into the decimal point
C14_Normalizer ==
    Returns("normalizeNumberString") =>
        /\ arg.v = JStr(GermanGrouped) => ret = Num(123456, 2)
        /\ arg.v = JStr(SpaceGrouped) => ret = Num(123456, 2)
        /\ arg.v = JStr(PlainDecimal) => ret = Num(9999, 2)
        /\ arg.v = JStr(NoPrice) => ret = Null
        /\ arg.v = JNull => ret = Null
        /\ ~TextWithDigit(arg.v) => ret = Null
        /\ TextWithDigit(arg.v) => ret = DecimalOf(CleanedMatch(arg.v.s))

\* the call with "1 234,56 EUR" has returned 1234.56
C14_Witness ==
    /\ Returns("normalizeNumberString")
    /\ arg.v = JStr(SpaceGrouped)
    /\ ret = Num(123456, 2)

\* C15: the normalizer handles an integer part of four or more digits
\* written without thousands separators, the whole run of digits being part
\* of the match: "1234,56" gives 1234.56, "1234.56" gives 123456 (and so
\* "12345" gives 12345)
C15_UngroupedIntegerPart ==
    Returns("normalizeNumberString") =>
        /\ arg.v = JStr(UngroupedComma) => ret = Num(123456, 2)
        /\ arg.v = JStr(UngroupedPoint) => ret = Num(123456, 0)
        /\ arg.v = JStr(LongUngrouped) => ret = Num(12345, 0)

\* the price the first offer of an item carries: offer.price, else
\* offer.priceSpecification.price; undefined when it carries none
CarriedPrice(item) ==
    IF item.offers = "absent" \/ item.list = << >> THEN JUndefined
    ELSE LET offer == item.list[1]
         IN IF Truthy(offer.price) THEN offer.price
            ELSE IF offer.hasSpec /\ Truthy(offer.specPrice) THEN offer.specPrice
            ELSE JUndefined

\* the items of a script that parses
ItemsIn(script) ==
    IF script.isArray THEN script.elems ELSE <<script.elems[1]>>

\* the (script, item) pairs of a document whose first offer carries a price
PricedPairs(doc) ==
    UNION {{<<i, j>> : j \in {k \in 1..Len(ItemsIn(doc.scripts[i])) :
                          CarriedPrice(ItemsIn(doc.scripts[i])[k]) # JUndefined}} :
           i \in {k \in 1..Len(doc.scripts) : doc.scripts[k].valid}}

\* document order of pairs
Before(p, q) == p[1] < q[1] \/ (p[1] = q[1] /\ p[2] <= q[2])

\* C16: the JSON-LD strategy returns the price of the first (script, item)
\* pair, scanning scripts and items in document order, whose first offer
\* carries a price (offer.price, else offer.priceSpecification.price); a
\* script that does not parse is skipped and does not stop the scan; the
\* strategy returns NotFound only when no script yields a price (none does
\* when the query for the scripts fails)
C16_FirstPricedPair ==
    Returns("tryJSONLD") =>
        LET pairs == IF arg.throws THEN {} ELSE PricedPairs(arg.doc)
        IN /\ pairs = {} <=> ret = Null
           /\ pairs # {} =>
                  LET p == CHOOSE q \in pairs : \A r \in pairs : Before(q, r)
                  IN ret = ToNumber(CarriedPrice(ItemsIn(arg.doc.scripts[p[1]])[p[2]]))

\* a script that does not parse, then an array whose second item has the
\* price 20 in the priceSpecification of its first offer: 20 is returned
C16_Witness ==
    /\ Returns("tryJSONLD") /\ ~arg.throws
    /\ Len(arg.doc.scripts) = 2
    /\ ~arg.doc.scripts[1].valid
    /\ arg.doc.scripts[2].isArray /\ Len(arg.doc.scripts[2].elems) = 2
    /\ ret = Num(20, 0)

\* the text holds one of the keywords, in any case of letters
HoldsKeyword(t) ==
    \E k \in 1..Len(keywords) : Includes(ToLowerCase(t), keywords[k])

\* the text holds a numeric run
HoldsNumber(t) == \E k \in 1..Len(t) : t[k] \in Digits

\* the body elements that qualify in the keyword pass, in the currency pass
KeywordEls(doc) ==
    {i \in 1..Len(doc.els) : HoldsKeyword(doc.els[i]) /\ HoldsNumber(doc.els[i])}

CurrencyEls(doc) ==
    {i \in 1..Len(doc.els) :
        (\E k \in 1..Len(doc.els[i]) : doc.els[i][k] = Euro)
            /\ HoldsNumber(doc.els[i])}

Least(S) == CHOOSE i \in S : \A j \in S : i <= j

\* the first numeric run of the i-th body element, normalized
NumberOfEl(doc, i) ==
    normalizeNumberString(JStr(NumberMatch(Trim(doc.els[i]))))

\* C17: the keyword pass of the heuristic has strict priority over the
\* currency pass: when any body element holds a keyword and a numeric run,
\* the number returned is the first numeric run of the first such element in
\* document order, whatever elements with the currency sign come earlier;
\* the currency pass gives the result only when no element qualifies in the
\* keyword pass
C17_KeywordPassFirst ==
    Returns("tryHeuristic") /\ ~arg.throws =>
        IF KeywordEls(arg.doc) # {}
        THEN ret = NumberOfEl(arg.doc, Least(KeywordEls(arg.doc)))
        ELSE IF CurrencyEls(arg.doc) # {}
        THEN ret = NumberOfEl(arg.doc, Least(CurrencyEls(arg.doc)))
        ELSE ret = Null

\* an element with the currency sign and 5 comes before an element with a
\* keyword and 7: 7 is returned
C17_Witness ==
    /\ Returns("tryHeuristic") /\ ~arg.throws
    /\ 1 \in CurrencyEls(arg.doc) /\ 1 \notin KeywordEls(arg.doc)
    /\ 2 \in KeywordEls(arg.doc) /\ 2 \notin CurrencyEls(arg.doc)
    /\ NumberOfEl(arg.doc, 1) = Num(5, 0)
    /\ ret = Num(7, 0)

\* the attribute is present and its text holds "price" in any case of letters
HoldsPrice(attr) ==
    attr.t = "string" /\ Includes(ToLowerCase(attr.s), PriceWord)

\* the meta elements whose name or property holds "price" and whose content
\* normalizes to a number
NameOrPropertyMetas(doc) ==
    {i \in 1..Len(doc.metas) :
        /\ HoldsPrice(doc.metas[i].name) \/ HoldsPrice(doc.metas[i].property)
        /\ normalizeNumberString(doc.metas[i].content) # Null}

\* the attribute the strategy reads a meta element by: its name, or its
\* property when it has no name or an empty one
KeyAttribute(m) ==
    IF m.name.t = "string" /\ m.name.s # << >> THEN m.name ELSE m.property

\* the meta elements whose name, or else property, holds "price" and whose
\* content normalizes to a number
KeyAttributeMetas(doc) ==
    {i \in 1..Len(doc.metas) :
        /\ HoldsPrice(KeyAttribute(doc.metas[i]))
        /\ normalizeNumberString(doc.metas[i].content) # Null}

\* C18 as stated: the meta strategy returns the normalized content of the
\* first meta element whose name or property holds "price" and whose content
\* normalizes to a number, and NotFound when there is none
C18_NameOrProperty ==
    Returns("tryMeta") /\ ~arg.throws =>
        IF NameOrPropertyMetas(arg.doc) = {} THEN ret = Null
        ELSE ret = normalizeNumberString(
                       arg.doc.metas[Least(NameOrPropertyMetas(arg.doc))].content)

\* C18: the meta strategy returns the normalized content of the first meta
\* element, in document order, whose name attribute, or whose property
\* attribute when it has no name, holds "price" in any case of letters and
\* whose content normalizes to a number; a matching element whose content is
\* missing or does not normalize is passed over; NotFound when none qualifies
C18_NameElseProperty ==
    Returns("tryMeta") /\ ~arg.throws =>
        IF KeyAttributeMetas(arg.doc) = {} THEN ret = Null
        ELSE ret = normalizeNumberString(
                       arg.doc.metas[Least(KeyAttributeMetas(arg.doc))].content)

\* a meta element named "Product:Price" whose content holds no number is
\* passed over and the next, with property "og:price:amount" and no name,
\* gives 1180
C18_Witness ==
    /\ Returns("tryMeta") /\ ~arg.throws
    /\ Len(arg.doc.metas) = 2
    /\ HoldsPrice(arg.doc.metas[1].name)
    /\ normalizeNumberString(arg.doc.metas[1].content) = Null
    /\ arg.doc.metas[2].name = JNull /\ HoldsPrice(arg.doc.metas[2].property)
    /\ ret = Num(1180, 0)

\* the tags that name the strategy a price came from
SuccessTags == {"selector", "json-ld", "meta", "heuristic"}

\* the return events of the current coin's trace that carry a value
Producers == SelectSeq(trace, LAMBDA e : e.ev = "return" /\ e.v # Null)

\* the last note names a strategy, and no other note does
EndsWithOneSuccessTag(ns) ==
    /\ ns # << >>
    /\ Last(ns).tag \in SuccessTags
    /\ \A k \in 1..(Len(ns) - 1) : ns[k].tag \notin SuccessTags

\* C19: whenever the price of a result is not null, its last note is the tag
\* of the strategy that produced the price and no other success tag is in
\* its notes; in particular, for a target without selector for which JSON-LD
\* and Meta return NotFound and the heuristic finds v, the result has price
\* v, ok true and notes that end with "heuristic"
C19_LastNoteNamesProducer ==
    /\ \A k \in 1..Len(results) :
           results[k].price_eur # Null => EndsWithOneSuccessTag(results[k].notes)
    /\ AtPush /\ price # Null =>
           /\ Len(Producers) = 1
           /\ price = Producers[1].v
           /\ Last(notes).tag = Producers[1].s
           /\ EndsWithOneSuccessTag(notes)
    /\ AtPush /\ ~Configured(coin)
         /\ Len(ReturnedValues) = 3
         /\ ReturnedValues[1] = Null /\ ReturnedValues[2] = Null
         /\ ReturnedValues[3] # Null =>
           LET r == ScrapeResult(coin, price, notes)
           IN /\ r.price_eur = ReturnedValues[3]
              /\ r.ok
              /\ Last(r.notes).tag = "heuristic"

\* the target with a selector of white space on the page with the price in
\* its body text only: JSON-LD and Meta found nothing, the heuristic 1050
C19_Witness ==
    /\ AtPush /\ coin.id = "c" /\ page = "text"
    /\ CalledStrategies = <<"json-ld", "meta", "heuristic">>
    /\ ReturnedValues = <<Null, Null, Num(1050, 0)>>
    /\ price = Num(1050, 0)
    /\ Tags(notes) = <<"heuristic">>

\* the tags that end the notes of a result
TerminalTags == SuccessTags \cup {"not-found"}

\* C20: the notes of every result are, in order: at most one
\* "page-load-failed: ..." note, first; then at most one "selector-not-found";
\* then exactly one note of "selector", "json-ld", "meta", "heuristic",
\* "not-found", last; so between 1 and 3 notes
C20_NotesShape ==
    \A k \in 1..Len(results) :
        LET tags == Tags(results[k].notes)
            n == Len(tags)
            failed == IF n > 0 /\ tags[1] = LoadFailedTag THEN 1 ELSE 0
        IN /\ n \in 1..3
           /\ tags[n] \in TerminalTags
           /\ \A i \in 1..(n - 1) :
                  \/ i = 1 /\ tags[i] = LoadFailedTag
                  \/ i = failed + 1 /\ tags[i] = "selector-not-found"

\* a result of one note, then a result of three: navigation failed, the
\* selector found nothing, and nothing else did
C20_Witness ==
    /\ Len(results) = 2
    /\ Tags(results[1].notes) = <<"json-ld">>
    /\ Tags(results[2].notes) = <<LoadFailedTag, "selector-not-found", "not-found">>
    /\ results[2].notes[1].detail = NetErrorMessage

====
